---- MODULE Spec2Model ----
(***************************************************************************)
(* Model of src/messages.rs: the peer-wire message parser, the message     *)
(* builders, the handshake builder and the UDP tracker announce builder.   *)
(*                                                                         *)
(* Representation of values                                                *)
(*   byte buffer   a sequence of bytes (0..255); a read names its offset   *)
(*   u32           a pair <<hi, lo>> of 16-bit halves (TLC integers stop   *)
(*                 at 2^31 - 1, so 32-bit values are kept in two halves)   *)
(*   u64           four 16-bit limbs <<l3, l2, l1, l0>>, most significant  *)
(*                 first                                                   *)
(*   i16/i32/i64   an Integer; the writers emit its two's complement       *)
(*   Option<T>     <<>> for None, <<v>> for Some(v)                        *)
(*   panic         a call that panics leaves pc at "build_panic" or        *)
(*                 "parse_panic"                                           *)
(***************************************************************************)
EXTENDS Integers, Sequences, FiniteSets, TLC

VARIABLES pc, op, args, frame, msg

vars == <<pc, op, args, frame, msg>>

\* ------------------------------------------------------------------------
\* Bounds of the model
\* ------------------------------------------------------------------------
MaxBlockLen == 2

MaxBitfieldLen == 2

MaxRawPayload == 13

MaxRawId == 10

MaxPeerIdLen == 21

\* ------------------------------------------------------------------------
\* Input samples
\* ------------------------------------------------------------------------
ByteSample == {0, 1, 255}

U32Sample == {<<0, 0>>, <<0, 5>>, <<0, 16384>>, <<1, 0>>, <<258, 772>>, <<65535, 65535>>}

\* values of the queue's PieceBlock fields before their `as u32` cast
NatSample == {0, 1, 16384, 65536, 16909060, 2147483647}

U64Sample == {<<0, 0, 0, 0>>, <<0, 0, 0, 1000>>, <<0, 1, 0, 0>>, <<65535, 65535, 65535, 65535>>}

I64Sample == {0, 42, -1, 2147483647}

I32Sample == {0, 305419896, -1}

PortSample == {0, 6881, 32767, 32768, 65535}

SeedSample == {0, 1, 255}

RECURSIVE SeqsUpTo(_, _)
SeqsUpTo(S, n) ==
    IF n = 0 THEN {<<>>}
    ELSE LET shorter == SeqsUpTo(S, n - 1)
         IN  shorter \cup {Append(s, b) : s \in {t \in shorter : Len(t) = n - 1}, b \in S}

\* a buffer of n bytes whose i-th byte is seed * i (mod 256)
PatternBytes(n, seed) == [i \in 1..n |-> (seed * i) % 256]

None == <<>>

Some(v) == <<v>>

\* ------------------------------------------------------------------------
\* ByteBuffer primitives (all multi-byte integers are big-endian)
\* ------------------------------------------------------------------------
write_u8(buf, v) == Append(buf, v % 256)

write_u16(buf, v) == buf \o <<(v \div 256) % 256, v % 256>>

write_i16(buf, v) == write_u16(buf, v % 65536)

write_u32(buf, v) == write_u16(write_u16(buf, v[1]), v[2])

write_u64(buf, v) == write_u16(write_u16(write_u16(write_u16(buf, v[1]), v[2]), v[3]), v[4])

\* the two's complement bit pattern of a signed value, as u32 halves
I32Bits(n) == <<(n \div 65536) % 65536, n % 65536>>

\* the two's complement bit pattern of a signed value, as u64 limbs
I64Bits(n) ==
    LET s == IF n < 0 THEN 65535 ELSE 0
    IN  <<s, s, (n \div 65536) % 65536, n % 65536>>

write_i32(buf, n) == write_u32(buf, I32Bits(n))

write_i64(buf, n) == write_u64(buf, I64Bits(n))

write_bytes(buf, bytes) == buf \o bytes

\* `x as u32` of a non-negative integer
AsU32(n) == <<(n \div 65536) % 65536, n % 65536>>

\* a read of n bytes at read position rpos succeeds iff the bytes exist
CanRead(buf, rpos, n) == rpos + n <= Len(buf)

read_u16(buf, rpos) == buf[rpos + 1] * 256 + buf[rpos + 2]

read_u32(buf, rpos) == <<read_u16(buf, rpos), read_u16(buf, rpos + 2)>>

read_u64(buf, rpos) ==
    <<read_u16(buf, rpos), read_u16(buf, rpos + 2), read_u16(buf, rpos + 4), read_u16(buf, rpos + 6)>>

\* buf.to_bytes()[from..to], zero-based and half-open; panics when from > to
CanSlice(buf, from, to) == from <= to /\ to <= Len(buf)

Slice(buf, from, to) == SubSeq(buf, from + 1, to)

\* ------------------------------------------------------------------------
\* GenericPayload, Msg
\* ------------------------------------------------------------------------
GenericPayload(index, begin, length, piece_index, block, bitfield) ==
    [index |-> index, begin |-> begin, length |-> length,
     piece_index |-> piece_index, block |-> block, bitfield |-> bitfield]

Msg(size, id, payload) == [size |-> size, id |-> id, payload |-> payload]

NoMsg == Msg(<<0, 0>>, 0, GenericPayload(<<0, 0>>, <<0, 0>>, None, None, None, None))

Returned(m) == [panicked |-> FALSE, msg |-> m]

Panic == [panicked |-> TRUE, msg |-> NoMsg]

\* ------------------------------------------------------------------------
\* parse
\* ------------------------------------------------------------------------
\* variant: a frame without an id byte gets a sentinel id instead of 0
get_msg_id_sentinel(m) == IF Len(m) > 4 THEN m[5] ELSE 255

get_msg_id(m) == IF Len(m) > 4 THEN m[5] ELSE 0

\* variant: the payload region starts at the id byte (offset 4)
payload_region_from_id(m) == IF Len(m) > 5 THEN Slice(m, 4, Len(m)) ELSE write_u8(<<>>, 0)

\* the payload region: every byte from offset 5, or one zero byte placeholder
payload_region(m) == IF Len(m) > 5 THEN Slice(m, 5, Len(m)) ELSE write_u8(<<>>, 0)

parse(m) ==
    IF ~CanRead(m, 0, 4) THEN Panic
    ELSE
    LET size == read_u32(m, 0)
        id == get_msg_id(m)
        payload_bytes == payload_region(m)
        grouped == id \in {6, 7, 8, 9}
    IN  IF grouped /\ ~CanSlice(payload_bytes, 8, Len(payload_bytes)) THEN Panic
        ELSE
        LET rest == IF grouped THEN Slice(payload_bytes, 8, Len(payload_bytes)) ELSE <<>>
            index == IF grouped THEN read_u32(payload_bytes, 0) ELSE <<0, 0>>
            begin == IF grouped THEN read_u32(payload_bytes, 4) ELSE <<0, 0>>
            payload == GenericPayload(index, begin, None, None, None, None)
        IN  CASE id \in {0, 1, 2, 3} ->
                   Returned(Msg(size, id, [payload EXCEPT !.length = Some(AsU32(Len(rest)))]))
              [] id = 4 ->
                   IF CanRead(rest, 0, 4)
                   THEN Returned(Msg(size, id, [payload EXCEPT !.piece_index = Some(read_u32(rest, 0))]))
                   ELSE Panic
              [] id = 5 ->
                   Returned(Msg(size, id, [payload EXCEPT !.bitfield = Some(payload_bytes)]))
              [] id \in {6, 8} ->
                   IF CanRead(rest, 0, 4)
                   THEN Returned(Msg(size, id, [payload EXCEPT !.length = Some(read_u32(rest, 0))]))
                   ELSE Panic
              [] id = 7 ->
                   Returned(Msg(size, id, [payload EXCEPT !.block = Some(rest)]))
              [] OTHER ->
                   Returned(Msg(size, id, payload))

\* ------------------------------------------------------------------------
\* Builders
\* ------------------------------------------------------------------------
PSTR == <<66, 105, 116, 84, 111, 114, 114, 101, 110, 116, 32, 112, 114, 111, 116, 111, 99, 111, 108>>

\* variant: the reserved field written as a 32-bit zero
build_peer_handshake_reserved32(info_hash, peer_id) ==
    write_bytes(write_bytes(write_u32(write_bytes(write_u8(<<>>, 19), PSTR), <<0, 0>>), info_hash), peer_id)

build_peer_handshake(info_hash, peer_id) ==
    write_bytes(write_bytes(write_u64(write_bytes(write_u8(<<>>, 19), PSTR), <<0, 0, 0, 0>>), info_hash), peer_id)

build_keep_alive == write_u32(<<>>, AsU32(0))

build_choke == write_u8(write_u32(<<>>, AsU32(1)), 0)

build_unchoke == write_u8(write_u32(<<>>, AsU32(1)), 1)

build_interested == write_u8(write_u32(<<>>, AsU32(1)), 2)

build_not_interested == write_u8(write_u32(<<>>, AsU32(1)), 3)

build_have(piece_index) == write_u32(write_u8(write_u32(<<>>, AsU32(5)), 4), piece_index)

\* variant: the length prefix leaves out the id byte
build_bitfield_no_id_in_len(bitfield) ==
    write_bytes(write_u8(write_u32(<<>>, AsU32(Len(bitfield))), 5), bitfield)

build_bitfield(bitfield) ==
    write_bytes(write_u8(write_u32(<<>>, AsU32(Len(bitfield) + 1)), 5), bitfield)

\* payload is the queue's PieceBlock; payload.length.unwrap() panics on None
build_request_panics(payload) == payload.length = None

\* variant: begin written before index
build_request_begin_first(payload) ==
    write_u32(write_u32(write_u32(write_u8(write_u32(<<>>, AsU32(13)), 6),
        AsU32(payload.begin)), AsU32(payload.index)), AsU32(payload.length[1]))

build_request(payload) ==
    write_u32(write_u32(write_u32(write_u8(write_u32(<<>>, AsU32(13)), 6),
        AsU32(payload.index)), AsU32(payload.begin)), AsU32(payload.length[1]))

\* payload.block.as_ref().unwrap() panics on None
build_piece_panics(payload) == payload.block = None

build_piece(payload) ==
    write_bytes(write_u32(write_u32(write_u8(write_u32(<<>>, AsU32(9 + Len(payload.block[1]))), 7),
        payload.index), payload.begin), payload.block[1])

unwrap_or(opt, default) == IF opt = None THEN default ELSE opt[1]

build_cancel(payload) ==
    write_u32(write_u32(write_u32(write_u8(write_u32(<<>>, AsU32(13)), 8),
        payload.index), payload.begin), unwrap_or(payload.length, <<0, 0>>))

build_port(port) == write_u16(write_u8(write_u32(<<>>, AsU32(3)), 9), port)

\* torrent.info_hash.as_ref().unwrap() and torrent.size.unwrap() panic on None
build_announce_req_panics(torrent) == torrent.info_hash = None \/ torrent.size = None

\* variant: left written before downloaded
build_announce_req_left_first(torrent, connection_id, peer_id, port, transaction_id) ==
    LET b0 == write_i64(<<>>, connection_id)
        b8 == write_i32(b0, 1)
        b12 == write_i32(b8, transaction_id)
        b16 == write_bytes(b12, torrent.info_hash[1])
        b36 == write_bytes(b16, peer_id)
        b56 == write_u64(b36, torrent.size[1])
        b64 == write_i64(b56, 0)
        b72 == write_i64(b64, 0)
        b80 == write_i32(b72, 0)
        b84 == write_i32(b80, 0)
        b88 == write_i32(b84, 0)
        b92 == write_i32(b88, -1)
    IN  write_i16(b92, port)

build_announce_req(torrent, connection_id, peer_id, port, transaction_id) ==
    LET b0 == write_i64(<<>>, connection_id)
        b8 == write_i32(b0, 1)
        b12 == write_i32(b8, transaction_id)
        b16 == write_bytes(b12, torrent.info_hash[1])
        b36 == write_bytes(b16, peer_id)
        b56 == write_i64(b36, 0)
        b64 == write_u64(b56, torrent.size[1])
        b72 == write_i64(b64, 0)
        b80 == write_i32(b72, 0)
        b84 == write_i32(b80, 0)
        b88 == write_i32(b84, 0)
        b92 == write_i32(b88, -1)
    IN  write_i16(b92, port)

\* a caller's `port as i16` for a port number in 0..65535
AsI16(p) == IF p >= 32768 THEN p - 65536 ELSE p

\* ------------------------------------------------------------------------
\* The calls: one builder (or one frame handed over by the transport) per
\* behaviour, drawn with its arguments in Init, then parse on a built
\* peer-wire frame
\* ------------------------------------------------------------------------
NoPayloadKinds == {"keep_alive", "choke", "unchoke", "interested", "not_interested"}

MsgKinds == {"choke", "unchoke", "interested", "not_interested", "have",
             "bitfield", "request", "piece", "cancel", "port"}

WireOps == MsgKinds \cup {"keep_alive", "raw"}

Ops == WireOps \cup {"handshake", "announce"}

KindId(o) ==
    CASE o = "choke" -> 0
      [] o = "unchoke" -> 1
      [] o = "interested" -> 2
      [] o = "not_interested" -> 3
      [] o = "have" -> 4
      [] o = "bitfield" -> 5
      [] o = "request" -> 6
      [] o = "piece" -> 7
      [] o = "cancel" -> 8
      [] o = "port" -> 9

DefaultArgs ==
    [piece_index |-> <<0, 0>>,
     bitfield |-> <<>>,
     piece_block |-> [index |-> 0, begin |-> 0, length |-> None],
     payload |-> GenericPayload(<<0, 0>>, <<0, 0>>, None, None, None, None),
     port |-> 0,
     info_hash |-> <<>>,
     peer_id |-> <<>>,
     torrent |-> [info_hash |-> None, size |-> None],
     connection_id |-> 0,
     raw |-> <<>>]

OptionOf(S) == {None} \cup {Some(v) : v \in S}

InfoHashSample == {PatternBytes(20, s) : s \in SeedSample}

PeerIdSample == {PatternBytes(n, s) : n \in 0..MaxPeerIdLen, s \in {1, 255}}

\* frames as the transport hands them over: a 4-byte prefix, then possibly an
\* id byte and up to MaxRawPayload payload bytes
RawFrames ==
    {write_u32(<<>>, sz) : sz \in U32Sample}
    \cup {write_bytes(write_u8(write_u32(<<>>, sz), id), PatternBytes(n, s)) :
            sz \in U32Sample, id \in (0..MaxRawId) \cup {255},
            n \in 0..MaxRawPayload, s \in SeedSample}

ArgsOf(o) ==
    CASE o \in NoPayloadKinds -> {DefaultArgs}
      [] o = "have" -> {[DefaultArgs EXCEPT !.piece_index = p] : p \in U32Sample}
      [] o = "bitfield" ->
           {[DefaultArgs EXCEPT !.bitfield = b] : b \in SeqsUpTo(ByteSample, MaxBitfieldLen)}
      [] o = "request" ->
           {[DefaultArgs EXCEPT !.piece_block = [index |-> i, begin |-> b, length |-> l]] :
              i \in NatSample, b \in NatSample, l \in OptionOf(NatSample)}
      [] o = "piece" ->
           {[DefaultArgs EXCEPT !.payload = GenericPayload(i, b, None, None, blk, None)] :
              i \in U32Sample, b \in U32Sample,
              blk \in OptionOf(SeqsUpTo(ByteSample, MaxBlockLen))}
      [] o = "cancel" ->
           {[DefaultArgs EXCEPT !.payload = GenericPayload(i, b, l, None, None, None)] :
              i \in U32Sample, b \in U32Sample, l \in OptionOf(U32Sample)}
      [] o = "port" -> {[DefaultArgs EXCEPT !.port = p] : p \in PortSample}
      [] o = "handshake" ->
           {[DefaultArgs EXCEPT !.info_hash = h, !.peer_id = p] :
              h \in InfoHashSample, p \in PeerIdSample}
      [] o = "announce" ->
           {[DefaultArgs EXCEPT !.torrent = [info_hash |-> h, size |-> sz],
                                !.connection_id = c, !.peer_id = p, !.port = pt] :
              h \in OptionOf(InfoHashSample), sz \in OptionOf(U64Sample),
              c \in I64Sample, p \in PeerIdSample, pt \in PortSample}
      [] o = "raw" -> {[DefaultArgs EXCEPT !.raw = f] : f \in RawFrames}

Init ==
    /\ pc = "ready"
    /\ op \in Ops
    /\ args \in ArgsOf(op)
    /\ frame = <<>>
    /\ msg = NoMsg

Built(f) ==
    /\ pc' = "built"
    /\ frame' = f
    /\ UNCHANGED <<op, args, msg>>

BuildPanicked ==
    /\ pc' = "build_panic"
    /\ UNCHANGED <<op, args, frame, msg>>

BuildKeepAlive == pc = "ready" /\ op = "keep_alive" /\ Built(build_keep_alive)

BuildChoke == pc = "ready" /\ op = "choke" /\ Built(build_choke)

BuildUnchoke == pc = "ready" /\ op = "unchoke" /\ Built(build_unchoke)

BuildInterested == pc = "ready" /\ op = "interested" /\ Built(build_interested)

BuildNotInterested == pc = "ready" /\ op = "not_interested" /\ Built(build_not_interested)

BuildHave == pc = "ready" /\ op = "have" /\ Built(build_have(args.piece_index))

BuildBitfield == pc = "ready" /\ op = "bitfield" /\ Built(build_bitfield(args.bitfield))

BuildRequest ==
    /\ pc = "ready"
    /\ op = "request"
    /\ IF build_request_panics(args.piece_block)
       THEN BuildPanicked
       ELSE Built(build_request(args.piece_block))

BuildPiece ==
    /\ pc = "ready"
    /\ op = "piece"
    /\ IF build_piece_panics(args.payload)
       THEN BuildPanicked
       ELSE Built(build_piece(args.payload))

BuildCancel == pc = "ready" /\ op = "cancel" /\ Built(build_cancel(args.payload))

BuildPort == pc = "ready" /\ op = "port" /\ Built(build_port(args.port))

BuildPeerHandshake ==
    /\ pc = "ready"
    /\ op = "handshake"
    /\ Built(build_peer_handshake(args.info_hash, args.peer_id))

\* the transaction id is whatever the thread's random generator returns
BuildAnnounceReq ==
    /\ pc = "ready"
    /\ op = "announce"
    /\ IF build_announce_req_panics(args.torrent)
       THEN BuildPanicked
       ELSE \E transaction_id \in I32Sample :
              Built(build_announce_req(args.torrent, args.connection_id, args.peer_id,
                                       AsI16(args.port), transaction_id))

\* the transport hands over one framed message
Receive == pc = "ready" /\ op = "raw" /\ Built(args.raw)

Parse ==
    /\ pc = "built"
    /\ op \in WireOps
    /\ LET r == parse(frame)
       IN  /\ pc' = IF r.panicked THEN "parse_panic" ELSE "parsed"
           /\ msg' = r.msg
    /\ UNCHANGED <<op, args, frame>>

Next ==
    \/ BuildKeepAlive
    \/ BuildChoke
    \/ BuildUnchoke
    \/ BuildInterested
    \/ BuildNotInterested
    \/ BuildHave
    \/ BuildBitfield
    \/ BuildRequest
    \/ BuildPiece
    \/ BuildCancel
    \/ BuildPort
    \/ BuildPeerHandshake
    \/ BuildAnnounceReq
    \/ Receive
    \/ Parse

Spec == Init /\ [][Next]_vars

TypeOK ==
    /\ pc \in {"ready", "built", "build_panic", "parsed", "parse_panic"}
    /\ op \in Ops
    /\ \A i \in 1..Len(frame) : frame[i] \in 0..255

\* ------------------------------------------------------------------------
\* Properties
\* ------------------------------------------------------------------------
\* the frame of the call is in `frame`
HasFrame == pc \in {"built", "parsed", "parse_panic"}

\* parse has been called on the frame
ParseCalled == pc \in {"parsed", "parse_panic"}

\* bytes at zero-based offsets first..last
BytesAt(buf, first, last) == SubSeq(buf, first + 1, last + 1)

AllZero(bytes) == \A i \in 1..Len(bytes) : bytes[i] = 0

\* the frame's first 4 bytes count the bytes that follow them
LengthPrefixOK(buf) == Len(buf) >= 4 /\ read_u32(buf, 0) = AsU32(Len(buf) - 4)

\* the signed value of 8 big-endian bytes, for values TLC's integers hold
I64InRange(buf, rpos) ==
    LET l == read_u64(buf, rpos)
    IN  \/ l[1] = 0 /\ l[2] = 0 /\ l[3] < 32768
        \/ l[1] = 65535 /\ l[2] = 65535 /\ l[3] >= 32768

read_i64(buf, rpos) ==
    LET l == read_u64(buf, rpos)
    IN  IF l[3] < 32768 THEN l[3] * 65536 + l[4] ELSE (l[3] - 65536) * 65536 + l[4]

PayloadMatchesArgs ==
    CASE op = "have" -> msg.payload.piece_index = Some(args.piece_index)
      [] op = "bitfield" ->
           args.bitfield # <<>> => msg.payload.bitfield = Some(args.bitfield)
      [] op = "request" ->
           /\ msg.payload.index = AsU32(args.piece_block.index)
           /\ msg.payload.begin = AsU32(args.piece_block.begin)
           /\ msg.payload.length = Some(AsU32(args.piece_block.length[1]))
      [] op = "piece" ->
           /\ msg.payload.index = args.payload.index
           /\ msg.payload.begin = args.payload.begin
           /\ msg.payload.block = args.payload.block
      [] op = "cancel" ->
           /\ msg.payload.index = args.payload.index
           /\ msg.payload.begin = args.payload.begin
           /\ msg.payload.length = Some(unwrap_or(args.payload.length, <<0, 0>>))
      [] OTHER -> TRUE

\* C1: for every message kind, parse of the built frame returns a Msg with
\* the kind's id and the payload fields equal to the builder's arguments
\* (a bitfield argument is compared when it is not empty; Msg has no port
\* field to compare).
C1_RoundTrip ==
    (op \in MsgKinds /\ ParseCalled) =>
        /\ pc = "parsed"
        /\ msg.id = KindId(op)
        /\ PayloadMatchesArgs

\* C2: parse never panics on a frame that holds at least the 4-byte length
\* prefix, whatever its id and however short its payload.
C2_ParseNeverPanics ==
    (op \in WireOps /\ Len(frame) >= 4) => pc # "parse_panic"

\* C3: build_have(p) is the 9-byte frame [5 as u32, 4, p as u32] and parsing
\* it yields id 4 and piece_index p.
C3_HaveRoundTrip ==
    (op = "have" /\ HasFrame) =>
        /\ Len(frame) = 9
        /\ BytesAt(frame, 0, 4) = <<0, 0, 0, 5, 4>>
        /\ read_u32(frame, 5) = args.piece_index
        /\ (ParseCalled =>
              /\ pc = "parsed"
              /\ msg.id = 4
              /\ msg.payload.piece_index = Some(args.piece_index))

\* C4: request and cancel frames are 17 bytes with length field 13, a piece
\* frame is 13 + len(block) bytes with length field 9 + len(block), and parse
\* recovers index, begin and length (ids 6, 8) or the block (id 7).
C4_RequestPieceCancelRoundTrip ==
    /\ (op = "request" /\ HasFrame) =>
          /\ Len(frame) = 17
          /\ read_u32(frame, 0) = <<0, 13>>
          /\ (ParseCalled =>
                /\ pc = "parsed"
                /\ msg.id = 6
                /\ msg.payload.index = AsU32(args.piece_block.index)
                /\ msg.payload.begin = AsU32(args.piece_block.begin)
                /\ msg.payload.length = Some(AsU32(args.piece_block.length[1])))
    /\ (op = "cancel" /\ HasFrame /\ args.payload.length # None) =>
          /\ Len(frame) = 17
          /\ read_u32(frame, 0) = <<0, 13>>
          /\ (ParseCalled =>
                /\ pc = "parsed"
                /\ msg.id = 8
                /\ msg.payload.index = args.payload.index
                /\ msg.payload.begin = args.payload.begin
                /\ msg.payload.length = args.payload.length)
    /\ (op = "piece" /\ HasFrame) =>
          /\ Len(frame) = 13 + Len(args.payload.block[1])
          /\ read_u32(frame, 0) = <<0, 9 + Len(args.payload.block[1])>>
          /\ (ParseCalled =>
                /\ pc = "parsed"
                /\ msg.id = 7
                /\ msg.payload.index = args.payload.index
                /\ msg.payload.begin = args.payload.begin
                /\ msg.payload.block = args.payload.block)

C4_Witness ==
    /\ op = "piece"
    /\ pc = "parsed"
    /\ args.payload.block = Some(<<>>)
    /\ args.payload.index = <<65535, 65535>>
    /\ msg.payload.index = <<65535, 65535>>
    /\ msg.payload.block = Some(<<>>)

\* C5: every message builder returns a frame whose first 4 bytes count the
\* bytes after them; except for keep-alive the byte at offset 4 is the kind's
\* id; keep-alive is exactly 4 zero bytes.
C5_CanonicalLayout ==
    (op \in MsgKinds \cup {"keep_alive"} /\ HasFrame) =>
        /\ LengthPrefixOK(frame)
        /\ (op # "keep_alive" => Len(frame) >= 5 /\ frame[5] = KindId(op))
        /\ (op = "keep_alive" => frame = <<0, 0, 0, 0>>)

C5_Witness ==
    /\ op = "bitfield"
    /\ pc = "built"
    /\ Len(args.bitfield) = 2
    /\ Len(frame) = 7

\* the handshake's bytes before the peer id
HandshakeHead ==
    /\ Len(frame) >= 48
    /\ frame[1] = 19
    /\ BytesAt(frame, 1, 19) = <<66, 105, 116, 84, 111, 114, 114, 101, 110, 116,
                                 32, 112, 114, 111, 116, 111, 99, 111, 108>>
    /\ AllZero(BytesAt(frame, 20, 27))
    /\ BytesAt(frame, 28, 47) = args.info_hash

\* C6 (as stated): the handshake is exactly 68 bytes for every peer_id buffer,
\* with the fixed head, the info_hash at 28-47 and the peer_id at 48-67.
C6_HandshakeAlways68 ==
    (op = "handshake" /\ pc = "built") =>
        /\ Len(frame) = 68
        /\ HandshakeHead
        /\ BytesAt(frame, 48, 67) = args.peer_id

\* C6 (amended): the handshake is 48 + len(peer_id) bytes, so exactly 68 bytes
\* when the peer_id is 20 bytes; it has the fixed head, the info_hash at 28-47
\* and the peer_id, whatever its length, from offset 48 to the end.
C6_HandshakeLayout ==
    (op = "handshake" /\ pc = "built") =>
        /\ Len(frame) = 48 + Len(args.peer_id)
        /\ (Len(args.peer_id) = 20 => Len(frame) = 68)
        /\ HandshakeHead
        /\ BytesAt(frame, 48, Len(frame) - 1) = args.peer_id

C6_Witness ==
    /\ op = "handshake"
    /\ pc = "built"
    /\ Len(args.peer_id) = 20
    /\ Len(frame) = 68
    /\ frame[68] = 236

\* C7: with a 20-byte info hash, a present size s, a 20-byte peer_id and a
\* port p in 0..65535 passed as i16, the announce request is 98 bytes laid out
\* as the table of offsets.
C7_AnnounceLayout ==
    (op = "announce" /\ pc = "built" /\ Len(args.peer_id) = 20) =>
        /\ Len(frame) = 98
        /\ I64InRange(frame, 0)
        /\ read_i64(frame, 0) = args.connection_id
        /\ BytesAt(frame, 8, 11) = <<0, 0, 0, 1>>
        /\ BytesAt(frame, 16, 35) = args.torrent.info_hash[1]
        /\ BytesAt(frame, 36, 55) = args.peer_id
        /\ AllZero(BytesAt(frame, 56, 63))
        /\ read_u64(frame, 64) = args.torrent.size[1]
        /\ AllZero(BytesAt(frame, 72, 79))
        /\ AllZero(BytesAt(frame, 80, 91))
        /\ BytesAt(frame, 92, 95) = <<255, 255, 255, 255>>
        /\ read_u16(frame, 96) = args.port

C7_Witness ==
    /\ op = "announce"
    /\ pc = "built"
    /\ Len(args.peer_id) = 20
    /\ args.torrent.size = Some(<<0, 0, 0, 1000>>)
    /\ args.connection_id = 42
    /\ args.port = 6881
    /\ BytesAt(frame, 64, 71) = <<0, 0, 0, 0, 0, 0, 3, 232>>
    /\ BytesAt(frame, 96, 97) = <<26, 225>>

\* the optional fields of a payload that are populated
Populated(payload) ==
    {f \in {"length", "piece_index", "block", "bitfield"} : payload[f] # None}

\* C8: a Msg returned by parse has exactly the fields of its id populated:
\* none for ids 0-3, piece_index for 4, bitfield for 5, length for 6 and 8,
\* block for 7, the port for 9, none for any other id.
C8_OnlyRelevantFields ==
    pc = "parsed" =>
        /\ msg.id \in {0, 1, 2, 3} => Populated(msg.payload) = {}
        /\ msg.id = 4 => Populated(msg.payload) = {"piece_index"}
        /\ msg.id = 5 => Populated(msg.payload) = {"bitfield"}
        /\ msg.id \in {6, 8} => Populated(msg.payload) = {"length"}
        /\ msg.id = 7 => Populated(msg.payload) = {"block"}
        /\ msg.id = 9 => "port" \in DOMAIN msg.payload
        /\ msg.id \notin 0..9 => Populated(msg.payload) = {}

\* C9 (as stated): parsing the keep-alive frame does not panic and yields
\* size 0, id 0, index 0, begin 0 and no optional field, length included.
C9_KeepAliveNoFields ==
    (op = "keep_alive" /\ ParseCalled) =>
        /\ pc = "parsed"
        /\ msg.size = <<0, 0>>
        /\ msg.id = 0
        /\ msg.payload = GenericPayload(<<0, 0>>, <<0, 0>>, None, None, None, None)

\* C9 (amended): parsing the keep-alive frame does not panic and yields
\* size 0, id 0, index 0, begin 0, length Some(0) (the length of the empty
\* rest region, recorded for ids 0-3) and piece_index, block, bitfield absent.
C9_KeepAliveLengthZero ==
    (op = "keep_alive" /\ ParseCalled) =>
        /\ pc = "parsed"
        /\ msg.size = <<0, 0>>
        /\ msg.id = 0
        /\ msg.payload = GenericPayload(<<0, 0>>, <<0, 0>>, Some(<<0, 0>>), None, None, None)

C9_Witness ==
    /\ op = "keep_alive"
    /\ pc = "parsed"
    /\ frame = <<0, 0, 0, 0>>
    /\ msg.payload.length = Some(<<0, 0>>)

\* layout of a bitfield frame: length field 1 + len(bits), id 5, bits verbatim
BitfieldFrameOK ==
    /\ Len(frame) = 5 + Len(args.bitfield)
    /\ read_u32(frame, 0) = <<0, 1 + Len(args.bitfield)>>
    /\ frame[5] = 5
    /\ BytesAt(frame, 5, Len(frame) - 1) = args.bitfield

\* C10 (as stated): for every bits, the empty sequence included, the bitfield
\* frame has length field 1 + len(bits), id 5 and bits verbatim, and parsing
\* it yields id 5 and a bitfield equal to bits.
C10_BitfieldRoundTrip ==
    (op = "bitfield" /\ HasFrame) =>
        /\ BitfieldFrameOK
        /\ (ParseCalled =>
              /\ pc = "parsed"
              /\ msg.id = 5
              /\ msg.payload.bitfield = Some(args.bitfield))

\* C10 (amended): the frame is as stated for every bits; parsing it yields
\* id 5 and a bitfield equal to bits when bits is not empty, and the one-byte
\* bitfield [0] (the placeholder of an empty payload region) when bits is
\* empty.
C10_BitfieldRoundTripNonEmpty ==
    (op = "bitfield" /\ HasFrame) =>
        /\ BitfieldFrameOK
        /\ (ParseCalled =>
              /\ pc = "parsed"
              /\ msg.id = 5
              /\ (args.bitfield # <<>> => msg.payload.bitfield = Some(args.bitfield))
              /\ (args.bitfield = <<>> => msg.payload.bitfield = Some(<<0>>)))

C10_Witness ==
    /\ op = "bitfield"
    /\ pc = "parsed"
    /\ args.bitfield = <<255, 1>>
    /\ msg.payload.bitfield = Some(<<255, 1>>)

====
